---- MODULE Spec2Model ----
(***************************************************************************)
(* A model of equinox/nn/_normalisation.py: the LayerNorm and GroupNorm    *)
(* modules, their constructors and their __call__ methods.                 *)
(*                                                                         *)
(* Arrays are records [tag, shape, data] with the data in row-major order. *)
(* Element values are exact: a value is a + b * rsqrt(r) with a, b, r      *)
(* rationals (pairs <<numerator, denominator>> in lowest terms), or one of *)
(* the IEEE specials nan, +inf, -inf that rsqrt(0) and 0 * inf produce.    *)
(* The binary32 rounding of the mean of a constant array is modelled apart *)
(* (the binary32 sections and SpecF32).                                    *)
(***************************************************************************)
EXTENDS Integers, Sequences, FiniteSets, TLC

\* ------------------------------------------------------------------ bounds
\* The largest number of elements of an input array (and the largest axis).
MaxElems == 4
\* The largest group count handed to GroupNorm.
MaxGroups == 2
\* The largest number of calls of one module.
MaxCalls == 2
\* The largest number of elements of a region of equal float32 values.
MaxRegion == 3

\* The element values of the input arrays.
Vals == {0, 1}
\* The eps values handed to the constructors, as rationals: 0 and 1.
EpsVals == {<<0, 1>>, <<1, 1>>}
\* The values passed as key: None or some PRNG key.
Keys == {"None", "key"}

\* ------------------------------------------------------------ rationals
\* Definitions below bind a value once, as the one element of a set, before
\* they read it several times: v is evaluated once and F sees the result.
Bind(v, F(_)) == CHOOSE r \in {F(u) : u \in {v}} : TRUE
Bind2(v, w, F(_, _)) == CHOOSE r \in {F(u, t) : u \in {v}, t \in {w}} : TRUE

Abs(n) == IF n < 0 THEN -n ELSE n

RECURSIVE Gcd(_, _)
Gcd(a, b) == IF b = 0 THEN a ELSE Gcd(b, a % b)

\* The rational p/q (q # 0) in lowest terms with a positive denominator.
Rat(p, q) ==
  LET g == Gcd(Abs(p), Abs(q))
      s == IF q < 0 THEN -1 ELSE 1
  IN <<(s * p) \div g, (s * q) \div g>>

RInt(n) == <<n, 1>>
RAdd(u, v) == Rat(u[1] * v[2] + v[1] * u[2], u[2] * v[2])
RSub(u, v) == Rat(u[1] * v[2] - v[1] * u[2], u[2] * v[2])
RMul(u, v) == Rat(u[1] * v[1], u[2] * v[2])
RDivInt(u, n) == Rat(u[1], u[2] * n)
RLess(u, v) == u[1] * v[2] < v[1] * u[2]
RZero == <<0, 1>>
ROne == <<1, 1>>

\* --------------------------------------------------------------- values
\* a + b * rsqrt(r); b = 0 is kept with r = 1 so that equal values are equal
\* records.
Fin(a, b, r) ==
  IF b = RZero THEN [k |-> "fin", a |-> a, b |-> RZero, r |-> ROne]
  ELSE [k |-> "fin", a |-> a, b |-> b, r |-> r]
Special(kind) == [k |-> kind, a |-> RZero, b |-> RZero, r |-> ROne]
NaN == Special("nan")
PInf == Special("pinf")
NInf == Special("ninf")
VRat(q) == Fin(q, RZero, ROne)
VInt(n) == VRat(RInt(n))
IsRat(v) == v.k = "fin" /\ v.b = RZero
IsZero(v) == v = VInt(0)
IsFinite(v) == v.k = "fin"
Negate(v) ==
  CASE v.k = "pinf" -> NInf
    [] v.k = "ninf" -> PInf
    [] v.k = "nan" -> NaN
    [] v.k = "fin" -> Fin(RSub(RZero, v.a), RSub(RZero, v.b), v.r)

\* u + v where one of the two is a plain rational (all the code needs).
VAdd(u, v) ==
  CASE u.k = "nan" \/ v.k = "nan" -> NaN
    [] u.k = "pinf" -> IF v.k = "ninf" THEN NaN ELSE PInf
    [] u.k = "ninf" -> IF v.k = "pinf" THEN NaN ELSE NInf
    [] v.k \in {"pinf", "ninf"} -> v
    [] IsRat(v) -> Fin(RAdd(u.a, v.a), u.b, u.r)
    [] IsRat(u) -> Fin(RAdd(u.a, v.a), v.b, v.r)

VSub(u, v) == Bind(Negate(v), LAMBDA w : VAdd(u, w))

\* The sign of a plain rational: -1, 0 or 1.
RSign(q) == IF q[1] < 0 THEN -1 ELSE IF q[1] = 0 THEN 0 ELSE 1

\* q * v for a plain rational q.
Scale(q, v) ==
  CASE v.k = "nan" -> NaN
    [] v.k \in {"pinf", "ninf"} ->
         IF RSign(q) = 0 THEN NaN
         ELSE IF (RSign(q) > 0) = (v.k = "pinf") THEN PInf ELSE NInf
    [] v.k = "fin" -> Fin(RMul(q, v.a), RMul(q, v.b), v.r)

\* u * v where one of the two is a plain rational.
VMul(u, v) ==
  CASE IsRat(u) -> Scale(u.a, v)
    [] IsRat(v) -> Scale(v.a, u)
    [] u.k = "nan" \/ v.k = "nan" -> NaN

\* jnp.maximum on plain rationals.
VMax(u, v) == IF RLess(u.a, v.a) THEN v ELSE u

\* jax.lax.rsqrt of a plain rational: nan below 0, +inf at 0.
rsqrt(v) ==
  CASE v.k # "fin" -> NaN
    [] RSign(v.a) < 0 -> NaN
    [] RSign(v.a) = 0 -> PInf
    [] OTHER -> Fin(RZero, ROne, v.a)

\* --------------------------------------------------------------- arrays
RECURSIVE Prod(_)
Prod(s) == IF s = <<>> THEN 1 ELSE Head(s) * Prod(Tail(s))

Arr(shape, data) == [tag |-> "array", shape |-> shape, data |-> <<>> \o data]
None == [tag |-> "None", shape |-> <<>>, data |-> <<>>]
\* An operation that raised: the exception's class is kept in the tag.
Raised(exc) == [tag |-> exc, shape |-> <<>>, data |-> <<>>]
IsArr(A) == A.tag = "array"
IsErr(A) == A.tag \notin {"array", "None"}

Ones(n) == [i \in 1..n |-> 1]
Full(shape, v) == Arr(shape, [i \in 1..Prod(shape) |-> v])

\* The multi-index (0-based, one entry per axis) of the flat index i (0-based).
RECURSIVE Unravel(_, _)
Unravel(i, shape) ==
  IF shape = <<>> THEN <<>>
  ELSE LET inner == Prod(Tail(shape))
       IN <<i \div inner>> \o Unravel(i % inner, Tail(shape))

RECURSIVE Ravel(_, _)
Ravel(idx, shape) ==
  IF shape = <<>> THEN 0
  ELSE Head(idx) * Prod(Tail(shape)) + Ravel(Tail(idx), Tail(shape))

PadLeft(shape, rank) == [i \in 1..(rank - Len(shape)) |-> 1] \o shape
Max2(a, b) == IF a < b THEN b ELSE a

\* numpy's broadcasting rule: trailing axes are aligned, an axis of size 1
\* stretches.
Compatible(s, t) ==
  LET n == Max2(Len(s), Len(t))
      ps == PadLeft(s, n)
      pt == PadLeft(t, n)
  IN \A i \in 1..n : ps[i] = pt[i] \/ ps[i] = 1 \/ pt[i] = 1

BroadcastShape(s, t) ==
  LET n == Max2(Len(s), Len(t))
      ps == PadLeft(s, n)
      pt == PadLeft(t, n)
  IN [i \in 1..n |-> Max2(ps[i], pt[i])]

\* The offset (0-based) in an array of padded shape ps of the element that
\* broadcasting puts at offset rem of an array of shape `shape`: axis j and the
\* axes before it, the axes after it having the stride `stride` in ps.
RECURSIVE BroadcastOffset(_, _, _, _, _)
BroadcastOffset(ps, shape, j, rem, stride) ==
  IF j = 0 THEN 0
  ELSE (IF ps[j] = 1 THEN 0 ELSE (rem % shape[j]) * stride)
       + BroadcastOffset(ps, shape, j - 1, rem \div shape[j], stride * ps[j])

\* The flat index (1-based) in an array of shape `own` of the element that
\* broadcasting puts at flat index i (1-based) of an array of shape `shape`.
BroadcastIndex(own, shape, i) ==
  IF own = shape THEN i
  ELSE 1 + BroadcastOffset(PadLeft(own, Len(shape)), shape, Len(shape), i - 1, 1)

\* An elementwise binary operation with broadcasting; an operand that is an
\* error gives that error, incompatible shapes raise.
Elementwise(Op(_, _), A0, B0) ==
  LET Body(A, B) ==
        IF IsErr(A) THEN A
        ELSE IF IsErr(B) THEN B
        ELSE IF ~IsArr(A) \/ ~IsArr(B) THEN Raised("TypeError")
        ELSE IF ~Compatible(A.shape, B.shape) THEN Raised("TypeError")
        ELSE Bind(BroadcastShape(A.shape, B.shape),
                  LAMBDA shape :
                    Arr(shape, [i \in 1..Prod(shape) |->
                          Bind2(A.data[BroadcastIndex(A.shape, shape, i)],
                                B.data[BroadcastIndex(B.shape, shape, i)],
                                Op)]))
  IN Bind2(A0, B0, Body)

Map(Op(_), A0) ==
  LET Body(A) ==
        IF IsErr(A) THEN A
        ELSE Arr(A.shape, [i \in 1..Len(A.data) |-> Bind(A.data[i], Op)])
  IN Bind(A0, Body)

\* x.reshape(shape): the same data in row-major order; the sizes must agree.
reshape(A0, shape0) ==
  LET Body(A, shape) ==
        IF IsErr(A) THEN A
        ELSE IF Prod(shape) # Prod(A.shape) THEN Raised("TypeError")
        ELSE Arr(shape, A.data)
  IN Bind2(A0, shape0, Body)

\* jnp.broadcast_to(A, shape).
broadcast_to(A0, shape0) ==
  LET Body(A, shape) ==
        IF IsErr(A) THEN A
        ELSE IF Len(A.shape) > Len(shape) \/ ~Compatible(A.shape, shape)
                \/ BroadcastShape(A.shape, shape) # shape
        THEN Raised("ValueError")
        ELSE Arr(shape, [i \in 1..Prod(shape) |->
                           A.data[BroadcastIndex(A.shape, shape, i)]])
  IN Bind2(A0, shape0, Body)

RECURSIVE SumSeq(_)
SumSeq(s) ==
  IF s = <<>> THEN RZero
  ELSE Bind(SumSeq(Tail(s)), LAMBDA rest : RAdd(Head(s).a, rest))

\* jnp.mean(x, keepdims=True) over every axis of an array of plain rationals:
\* one value, in an array of x's rank with every axis of size 1.
jnp_mean(A0) ==
  LET Body(A) ==
        IF IsErr(A) THEN A
        ELSE Arr(Ones(Len(A.shape)),
                 <<IF Len(A.data) = 0 THEN NaN
                   ELSE VRat(RDivInt(SumSeq(A.data), Len(A.data)))>>)
  IN Bind(A0, Body)

\* jnp.var(x, keepdims=True): the mean of the squared deviations from the mean
\* (the population variance).
jnp_var(A0) ==
  LET Body(A) ==
        IF IsErr(A) THEN A
        ELSE Bind(Elementwise(VSub, A, jnp_mean(A)),
                  LAMBDA centered :
                    jnp_mean(Elementwise(VMul, centered, centered)))
  IN Bind(A0, Body)

\* vmap(F)(Y): F applied to each slice of Y along its leading axis, the results
\* stacked along a new leading axis.
Slice(Y, g) ==
  LET inner == Tail(Y.shape)
      n == Prod(inner)
  IN Arr(inner, [i \in 1..n |-> Y.data[(g - 1) * n + i]])

RECURSIVE Concat(_)
Concat(ss) == IF ss = <<>> THEN <<>> ELSE Head(ss) \o Concat(Tail(ss))

vmap(F(_), Y0) ==
  LET Stack(parts) ==
        Arr(<<Len(parts)>> \o parts[1].shape,
            Concat([g \in 1..Len(parts) |-> parts[g].data]))
      Body(Y) ==
        IF IsErr(Y) THEN Y
        ELSE Bind(<<>> \o [g \in 1..Head(Y.shape) |-> F(Slice(Y, g))], Stack)
  IN Bind(Y0, Body)

\* ---------------------------------------------------- constructor arguments
\* A shape argument: None, an int, or a tuple of ints.
NoneArg == [kind |-> "None", n |-> 0, dims |-> <<>>]
IntArg(n) == [kind |-> "int", n |-> n, dims |-> <<>>]
TupleArg(dims) == [kind |-> "tuple", n |-> 0, dims |-> dims]

\* The shape jnp.ones/jnp.zeros canonicalise their argument to.
Canonical(arg) == IF arg.kind = "int" THEN <<arg.n>> ELSE arg.dims

\* A jnp.ones that takes None for the shape of a scalar.
jnp_ones_lenient(arg) == Full(Canonical(arg), VInt(1))

\* jnp.ones(shape): an int is the shape (n,); None is no shape and raises.
jnp_ones(arg) ==
  IF arg.kind = "None" THEN Raised("TypeError")
  ELSE Full(Canonical(arg), VInt(1))

\* A bias that starts as ones, like the weight.
jnp_zeros_as_ones(arg) ==
  IF arg.kind = "None" THEN Raised("TypeError")
  ELSE Full(Canonical(arg), VInt(1))

\* jnp.zeros(shape).
jnp_zeros(arg) ==
  IF arg.kind = "None" THEN Raised("TypeError")
  ELSE Full(Canonical(arg), VInt(0))

\* ------------------------------------------------------------- LayerNorm
NoObject ==
  [cls |-> "None", shape |-> NoneArg, groups |-> 0, channels |-> NoneArg,
   eps |-> RZero, use_weight |-> FALSE, use_bias |-> FALSE,
   channelwise_affine |-> FALSE, weight |-> None, bias |-> None]

\* use_weight after the deprecated flag is applied.
use_weight_of(use_weight, elementwise_affine) ==
  IF elementwise_affine # "None" THEN elementwise_affine = "True"
  ELSE use_weight

\* A constructor that leaves use_bias as passed when the deprecated flag is
\* given.
use_bias_kept(use_bias, elementwise_affine) == use_bias

\* use_bias after the deprecated flag is applied.
use_bias_of(use_bias, elementwise_affine) ==
  IF elementwise_affine # "None" THEN elementwise_affine = "True"
  ELSE use_bias

\* LayerNorm.__init__: the object, the exception that ended the constructor
\* ("none" when it returned) and whether warnings.warn was called.
LayerNorm_init(shape, eps, use_weight, use_bias, elementwise_affine) ==
  LET uw == use_weight_of(use_weight, elementwise_affine)
      ub == use_bias_of(use_bias, elementwise_affine)
      weight == IF uw THEN jnp_ones(shape) ELSE None
      bias == IF ub THEN jnp_zeros(shape) ELSE None
      exc == IF IsErr(weight) THEN weight.tag
             ELSE IF IsErr(bias) THEN bias.tag ELSE "none"
  IN [self |-> IF exc # "none" THEN NoObject
               ELSE [NoObject EXCEPT !.cls = "LayerNorm", !.shape = shape,
                                     !.eps = eps, !.use_weight = uw,
                                     !.use_bias = ub, !.weight = weight,
                                     !.bias = bias],
      exc |-> exc,
      warned |-> elementwise_affine # "None"]

\* The pre-affine value both modules compute from an array and its mean and
\* variance: (x - mean) * rsqrt(maximum(0, variance) + eps).
Normalise(x, mean, variance, eps) ==
  Elementwise(VMul,
    Elementwise(VSub, x, mean),
    Map(rsqrt,
        Elementwise(VAdd,
                    Elementwise(VMax, Full(<<>>, VInt(0)), variance),
                    Full(<<>>, VRat(eps)))))

\* A call that multiplies by self.weight whatever use_weight says.
ApplyWeightAlways(self, out) == Elementwise(VMul, self.weight, out)

\* if self.use_weight: out = self.weight * out
ApplyWeight(self, out) ==
  IF self.use_weight THEN Elementwise(VMul, self.weight, out) ELSE out

\* if self.use_bias: out = out + self.bias
ApplyBias(self, out) ==
  IF self.use_bias THEN Elementwise(VAdd, out, self.bias) ELSE out

\* The array LayerNorm.__call__ returns (or the exception it raises).
LayerNorm_out(self, x) ==
  ApplyBias(self,
    ApplyWeight(self, Normalise(x, jnp_mean(x), jnp_var(x), self.eps)))

\* A call that normalises its argument in place.
LayerNorm_call_inplace(self, x, key) ==
  Bind(LayerNorm_out(self, x),
       LAMBDA out : [self |-> self, x |-> IF IsArr(out) THEN out ELSE x,
                     out |-> out])

\* LayerNorm.__call__: self and x as the call leaves them, and the array
\* returned (or the exception raised).
LayerNorm_call(self, x, key) ==
  [self |-> self, x |-> x, out |-> LayerNorm_out(self, x)]

\* ------------------------------------------------------------- GroupNorm
\* Python's %, for a positive divisor.
PyMod(a, b) == a % b

\* A constructor without the divisibility check.
GroupNorm_check_missing(groups, channels, channelwise_affine) ==
  IF channels.kind = "None" /\ channelwise_affine THEN "ValueError" ELSE "none"

\* The two checks that open GroupNorm.__init__: the exception raised, or
\* "none".
GroupNorm_check(groups, channels, channelwise_affine) ==
  IF channels.kind # "None" /\ PyMod(channels.n, groups) # 0 THEN "ValueError"
  ELSE IF channels.kind = "None" /\ channelwise_affine THEN "ValueError"
  ELSE "none"

GroupNorm_init(groups, channels, eps, channelwise_affine) ==
  LET exc == GroupNorm_check(groups, channels, channelwise_affine)
  IN [self |-> IF exc # "none" THEN NoObject
               ELSE [NoObject EXCEPT
                       !.cls = "GroupNorm", !.groups = groups,
                       !.channels = channels, !.eps = eps,
                       !.channelwise_affine = channelwise_affine,
                       !.weight = IF channelwise_affine THEN jnp_ones(channels)
                                  ELSE None,
                       !.bias = IF channelwise_affine THEN jnp_zeros(channels)
                                ELSE None],
      exc |-> exc,
      warned |-> FALSE]

\* equinox._misc.left_broadcast_to: singleton axes are appended to arr's shape
\* up to the rank of `shape`, then the array is broadcast to it.
left_broadcast_to(arr, shape) ==
  LET extra == IF Len(shape) > Len(arr.shape)
               THEN Len(shape) - Len(arr.shape) ELSE 0
  IN broadcast_to(reshape(arr, arr.shape \o Ones(extra)), shape)

\* A regrouping with the two new axes in the wrong order.
RegroupSwapped(self, x) ==
  reshape(x, <<Head(x.shape) \div self.groups, self.groups>> \o Tail(x.shape))

\* y = x.reshape(self.groups, channels // self.groups, *x.shape[1:])
Regroup(self, x) ==
  reshape(x, <<self.groups, Head(x.shape) \div self.groups>> \o Tail(x.shape))

\* A mean taken over the whole of y, the vmap forgotten.
GroupMeanOfAll(y) == jnp_mean(y)

\* mean = jax.vmap(ft.partial(jnp.mean, keepdims=True))(y)
GroupMean(y) == vmap(jnp_mean, y)

\* variance = jax.vmap(ft.partial(jnp.var, keepdims=True))(y)
GroupVar(y) == vmap(jnp_var, y)

\* A call that returns the grouped array as it is.
UngroupForgotten(out, x) == out

\* out = out.reshape(x.shape)
Ungroup(out, x) == reshape(out, x.shape)

\* if self.channelwise_affine: out = weight * out + bias, weight and bias
\* left-broadcast to out's shape.
ChannelAffine(self, out0) ==
  LET Body(out) ==
        IF self.channelwise_affine /\ ~IsErr(out)
        THEN Elementwise(VAdd,
               Elementwise(VMul, left_broadcast_to(self.weight, out.shape), out),
               left_broadcast_to(self.bias, out.shape))
        ELSE out
  IN Bind(out0, Body)

\* The array GroupNorm.__call__ returns (or the exception it raises).
GroupNorm_out(self, x) ==
  IF x.shape = <<>> THEN Raised("IndexError")
  ELSE LET Body(y) ==
             Ungroup(Normalise(y, GroupMean(y), GroupVar(y), self.eps), x)
       IN ChannelAffine(self, Bind(Regroup(self, x), Body))

\* GroupNorm.__call__: self and x as the call leaves them, and the array
\* returned (or the exception raised).
GroupNorm_call(self, x, key) ==
  [self |-> self, x |-> x, out |-> GroupNorm_out(self, x)]

\* ------------------------------------------------------- binary32 values
\* The arrays of the module are float32 arrays, and jnp computes on them in
\* IEEE binary32 with round-to-nearest-even.  A finite value is s * m * 2^e
\* with s the sign, m below 2^Precision and e at least MinExp; a normal value
\* has m at least 2^(Precision - 1), a subnormal one has e = MinExp.  Zero is
\* kept without a sign: -0.0 and 0.0 compare equal.
Precision == 24
MinExp == -149
MaxExp == 104

F32(s, m, e) == [k |-> "fin", s |-> s, m |-> m, e |-> e]
FZero == F32(1, 0, MinExp)
FInf(s) == [k |-> "inf", s |-> s, m |-> 0, e |-> 0]
FNaN == [k |-> "nan", s |-> 1, m |-> 0, e |-> 0]

FIsZero(a) == a.k = "fin" /\ a.m = 0
FIsFinite(a) == a.k = "fin"

Min2(a, b) == IF a < b THEN a ELSE b

\* The number of bits of M.
RECURSIVE BitLen(_)
BitLen(M) == IF M = 0 THEN 0 ELSE 1 + BitLen(M \div 2)

\* The binary32 value nearest to s * (M + t) * 2^E, ties to even, where t is 0
\* or, if sticky, some fraction strictly between 0 and 1.  Callers pass a
\* sticky bit only with an M of more than Precision bits.
FRound(s, M, E, sticky) ==
  LET L == BitLen(M)
      drop == Max2(L - Precision, MinExp - E)
  IN IF M = 0 /\ ~sticky THEN FZero
     ELSE IF drop <= 0
     THEN LET up == Min2(Precision - L, E - MinExp)
          IN IF E - up > MaxExp THEN FInf(s) ELSE F32(s, M * 2^up, E - up)
     ELSE IF drop > L THEN FZero
     ELSE LET q == M \div 2^drop
              r == M % 2^drop
              half == 2^(drop - 1)
              q1 == IF r > half \/ (r = half /\ (sticky \/ q % 2 = 1))
                    THEN q + 1 ELSE q
              m == IF q1 = 2^Precision THEN 2^(Precision - 1) ELSE q1
              e == IF q1 = 2^Precision THEN E + drop + 1 ELSE E + drop
          IN IF m = 0 THEN FZero
             ELSE IF e > MaxExp THEN FInf(s)
             ELSE F32(s, m, e)

\* A finite value that is not zero with its m shifted to Precision bits (the
\* exponent of a subnormal value goes below MinExp).
FNorm(a) ==
  LET sh == Precision - BitLen(a.m)
  IN [m |-> a.m * 2^sh, e |-> a.e - sh]

FNeg(a) == IF a.k = "nan" \/ FIsZero(a) THEN a ELSE [a EXCEPT !.s = -a.s]

\* a + b of two finite values: the smaller one is aligned to the larger with
\* three more bits, and what is shifted out is kept as the sticky bit.
FAddFinite(a, b) ==
  LET big == IF a.e > b.e \/ (a.e = b.e /\ a.m >= b.m) THEN a ELSE b
      small == IF a.e > b.e \/ (a.e = b.e /\ a.m >= b.m) THEN b ELSE a
      d == big.e - small.e
      Mb == big.m * 8
      Ms == IF d >= 28 THEN 0 ELSE (small.m * 8) \div 2^d
      st == IF d >= 28 THEN small.m # 0 ELSE (small.m * 8) % 2^d # 0
  IN IF big.s = small.s THEN FRound(big.s, Mb + Ms, big.e - 3, st)
     ELSE IF st THEN FRound(big.s, Mb - Ms - 1, big.e - 3, TRUE)
     ELSE FRound(big.s, Mb - Ms, big.e - 3, FALSE)

FAdd(a, b) ==
  IF a.k = "nan" \/ b.k = "nan" THEN FNaN
  ELSE IF a.k = "inf"
  THEN IF b.k = "inf" /\ b.s # a.s THEN FNaN ELSE a
  ELSE IF b.k = "inf" THEN b
  ELSE FAddFinite(a, b)

FSub(a, b) == FAdd(a, FNeg(b))

\* a * b of two finite values that are not zero: the 48-bit product of the
\* two 24-bit m, computed in 12-bit halves.
FMulFinite(a, b) ==
  LET na == FNorm(a)
      nb == FNorm(b)
      a1 == na.m \div 4096
      a0 == na.m % 4096
      b1 == nb.m \div 4096
      b0 == nb.m % 4096
      mid == a1 * b0 + a0 * b1
      low == (mid % 4096) * 4096 + a0 * b0
      high == a1 * b1 + mid \div 4096 + low \div 2^24
      rest == low % 2^24
  IN FRound(a.s * b.s, high * 4 + rest \div 2^22, na.e + nb.e + 22,
            rest % 2^22 # 0)

FMul(a, b) ==
  IF a.k = "nan" \/ b.k = "nan" THEN FNaN
  ELSE IF a.k = "inf" \/ b.k = "inf"
  THEN IF FIsZero(a) \/ FIsZero(b) THEN FNaN ELSE FInf(a.s * b.s)
  ELSE IF FIsZero(a) \/ FIsZero(b) THEN FZero
  ELSE FMulFinite(a, b)

\* The float32 of the integer n, for n below 2^Precision.
FInt(n) == FRound(1, n, 0, FALSE)

\* a / float32(n) for an integer n from 1 to 16.
FDivInt(a, n) ==
  IF a.k # "fin" \/ FIsZero(a) THEN a
  ELSE LET na == FNorm(a)
       IN FRound(a.s, (na.m * 64) \div n, na.e - 6, (na.m * 64) % n # 0)

\* a < b.
FLess(a, b) ==
  IF a.k = "nan" \/ b.k = "nan" THEN FALSE
  ELSE IF a.k = "inf" THEN a.s = -1 /\ ~(b.k = "inf" /\ b.s = -1)
  ELSE IF b.k = "inf" THEN b.s = 1
  ELSE LET d == FAddFinite(a, FNeg(b))
       IN d.k = "fin" /\ d.m # 0 /\ d.s = -1

\* jnp.maximum: nan if either operand is nan.
FMax(a, b) ==
  IF a.k = "nan" \/ b.k = "nan" THEN FNaN
  ELSE IF FLess(a, b) THEN b ELSE a

\* ------------------------------------------- normalising in binary32
\* The values the float32 sum of k equal values v can take.  XLA fixes no
\* order for the additions of a reduction, so every way of pairing partial
\* sums is an outcome.
RECURSIVE SumsOf(_, _)
SumsOf(k, v) ==
  IF k = 1 THEN {v}
  ELSE UNION {{FAdd(a, b) : a \in SumsOf(i, v), b \in SumsOf(k - i, v)} :
                i \in 1..(k \div 2)}

\* jnp.mean of n equal values v: the sum divided by n, or, where the compiler
\* rewrites the division by a constant, multiplied by float32(1 / n).
MeansOf(v, n) ==
  UNION {{FDivInt(s, n), FMul(s, FDivInt(FInt(1), n))} : s \in SumsOf(n, v)}

\* jnp.var of n equal values v: the mean of the squares of v - mean.
VarsOf(v, n) ==
  UNION {MeansOf(FMul(FSub(v, m), FSub(v, m)), n) : m \in MeansOf(v, n)}

\* variance = jnp.maximum(0.0, variance)
FloorVariance(variance) == FMax(FZero, variance)

\* The argument of the inverse square root with eps left out.
RsqrtArgWithoutEps(variance, eps) == variance

\* variance + self.eps
RsqrtArg(variance, eps) == FAdd(variance, eps)

\* jax.lax.rsqrt(a).  How the result is rounded is left to the backend: for
\* a finite a > 0 in [2^t, 2^(t+1)) the result is kept as the range
\* 2^lo .. 2^hi, one binade wider on each side than the exact values.
rsqrt32(a) ==
  IF a.k = "nan" THEN [k |-> "nan", lo |-> 0, hi |-> 0]
  ELSE IF a.k = "inf"
  THEN [k |-> IF a.s = 1 THEN "zero" ELSE "nan", lo |-> 0, hi |-> 0]
  ELSE IF FIsZero(a) THEN [k |-> "inf", lo |-> 0, hi |-> 0]
  ELSE IF a.s = -1 THEN [k |-> "nan", lo |-> 0, hi |-> 0]
  ELSE LET t == FNorm(a).e + Precision - 1
       IN [k |-> "fin", lo |-> ((-(t + 1)) \div 2) - 1,
           hi |-> 1 - (t \div 2)]

\* (x - mean) * inv for one element, as what kind of value it can be: "zero",
\* "nonzero" (finite and not zero), "inf" or "nan".
OutsOf(d, inv) ==
  IF d.k = "nan" \/ inv.k = "nan" THEN {"nan"}
  ELSE IF FIsZero(d) THEN IF inv.k = "inf" THEN {"nan"} ELSE {"zero"}
  ELSE IF d.k = "inf" THEN IF inv.k = "zero" THEN {"nan"} ELSE {"inf"}
  ELSE IF inv.k = "zero" THEN {"zero"}
  ELSE IF inv.k = "inf" THEN {"inf"}
  ELSE LET t == FNorm(d).e + Precision - 1
       IN {k \in {"zero", "nonzero", "inf"} :
             \/ k = "zero" /\ t + inv.lo < MinExp
             \/ k = "nonzero" /\ t + 1 + inv.hi >= MinExp
                              /\ t + inv.lo < MaxExp + Precision
             \/ k = "inf" /\ t + 1 + inv.hi >= MaxExp + Precision}

\* What normalising a region of n elements, all equal to v, can give: the
\* mean, the variance, the argument of rsqrt, x - mean, inv and the output of
\* every element (they are all the same).
NormaliseF32(v, n, eps) ==
  UNION {LET arg == RsqrtArg(FloorVariance(variance), eps)
             inv == rsqrt32(arg)
             centred == FSub(v, mean)
         IN {[mean |-> mean, variance |-> variance, arg |-> arg,
              centred |-> centred, inv |-> inv, out |-> o] :
               o \in OutsOf(centred, inv)} :
           mean \in MeansOf(v, n), variance \in VarsOf(v, n)}

\* ------------------------------------------------------------ the inputs
Dims == 1..MaxElems

\* The shapes of no, one or two axes with at most MaxElems elements.
Shapes ==
  {<<>>} \cup {<<a>> : a \in Dims}
  \cup {s \in {<<a, b>> : a \in Dims, b \in Dims} : Prod(s) <= MaxElems}

ArraysOf(shape) ==
  {Arr(shape, [i \in 1..Prod(shape) |-> VInt(d[i])]) :
     d \in [1..Prod(shape) -> Vals]}

ShapeArgs == {NoneArg} \cup {IntArg(n) : n \in Dims}
             \cup {TupleArg(s) : s \in Shapes}
ChannelArgs == {NoneArg} \cup {IntArg(n) : n \in Dims}
Flags == {"None", "True", "False"}

\* Whether shape s is the one the object is configured for: LayerNorm's shape,
\* GroupNorm's channels as the leading axis; an absent one fits every shape.
Conforms(o, s) ==
  IF o.cls = "LayerNorm"
  THEN o.shape.kind = "None" \/ s = Canonical(o.shape)
  ELSE s # <<>> /\ (o.channels.kind = "None" \/ Head(s) = o.channels.n)

\* The arrays an object is called with: every array over Vals of a shape it is
\* configured for, and the all-zero array of every other shape.
Inputs(o) ==
  UNION {IF Conforms(o, s) THEN ArraysOf(s) ELSE {Full(s, VInt(0))} :
           s \in Shapes}

\* The array of a call that follows another: the all-zero array of the shape
\* of the array before.
Again(a) == {Full(a.shape, VInt(0))}

\* The float32 values of the constant regions: 1.0, 1.7, 0.1, -0.9, the
\* largest finite value, 1.7 * 2^100 and the smallest normal value.
Consts32 ==
  {F32(1, 8388608, -23), F32(1, 14260634, -23), F32(1, 13421773, -27),
   F32(-1, 15099494, -24), F32(1, 16777215, MaxExp), F32(1, 14260634, 77),
   F32(1, 8388608, MinExp)}
\* The float32 eps values: 1e-5 (the default) and 1.0.
Eps32 == {F32(1, 10995116, -40), F32(1, 8388608, -23)}

\* The sequences of g values of S.
RECURSIVE SeqsOf(_, _)
SeqsOf(S, g) ==
  IF g = 0 THEN {<<>>}
  ELSE {Append(q, v) : q \in SeqsOf(S, g - 1), v \in S}

\* The float32 inputs: a LayerNorm input is one region of n elements equal to
\* consts[1]; a GroupNorm input has Len(consts) groups of n elements, the
\* elements of group g equal to consts[g].
NoInput32 == [cls |-> "None", n |-> 0, consts |-> <<>>, eps |-> FZero]
Inputs32 ==
  {[cls |-> "LayerNorm", n |-> n, consts |-> <<c>>, eps |-> eps] :
     n \in 1..MaxRegion, c \in Consts32, eps \in Eps32}
  \cup
  {[cls |-> "GroupNorm", n |-> n, consts |-> cs, eps |-> eps] :
     n \in 1..MaxRegion, cs \in SeqsOf(Consts32, MaxGroups), eps \in Eps32}

\* ------------------------------------------------------- the state machine
VARIABLES
  pc,      \* "start", "constructed", "failed" or "called"
  args,    \* the arguments of the constructor call
  obj,     \* the module object
  obj0,    \* the module object as the constructor returned it
  exc,     \* the exception the constructor raised, or "none"
  warned,  \* whether the constructor emitted a warning
  xin,     \* the array passed to the last call
  x,       \* that array after the call
  out,     \* what the last call returned or raised
  ncalls,  \* the number of calls made
  pc32,    \* the float32 call: "idle", "ready" or "done"
  in32,    \* the float32 input of the call
  res32    \* what normalising each region of the float32 input gave

vars32 == <<pc32, in32, res32>>
vars == <<pc, args, obj, obj0, exc, warned, xin, x, out, ncalls, vars32>>

NoArgs ==
  [cls |-> "None", shape |-> NoneArg, groups |-> 0, channels |-> NoneArg,
   eps |-> RZero, use_weight |-> FALSE, use_bias |-> FALSE,
   elementwise_affine |-> "None", channelwise_affine |-> FALSE]

Init ==
  /\ pc = "start"
  /\ args = NoArgs
  /\ obj = NoObject
  /\ obj0 = NoObject
  /\ exc = "none"
  /\ warned = FALSE
  /\ xin = None
  /\ x = None
  /\ out = None
  /\ ncalls = 0
  /\ pc32 = "idle"
  /\ in32 = NoInput32
  /\ res32 = <<>>

Constructed(r, a) ==
  /\ pc' = IF r.exc = "none" THEN "constructed" ELSE "failed"
  /\ args' = a
  /\ obj' = r.self
  /\ obj0' = r.self
  /\ exc' = r.exc
  /\ warned' = r.warned
  /\ UNCHANGED <<xin, x, out, ncalls, vars32>>

NewLayerNorm ==
  /\ pc = "start"
  /\ \E shape \in ShapeArgs, eps \in EpsVals, uw \in BOOLEAN, ub \in BOOLEAN,
        ea \in Flags :
       Constructed(LayerNorm_init(shape, eps, uw, ub, ea),
                   [NoArgs EXCEPT !.cls = "LayerNorm", !.shape = shape,
                                  !.eps = eps, !.use_weight = uw,
                                  !.use_bias = ub,
                                  !.elementwise_affine = ea])

NewGroupNorm ==
  /\ pc = "start"
  /\ \E groups \in 1..MaxGroups, channels \in ChannelArgs, eps \in EpsVals,
        ca \in BOOLEAN :
       Constructed(GroupNorm_init(groups, channels, eps, ca),
                   [NoArgs EXCEPT !.cls = "GroupNorm", !.groups = groups,
                                  !.channels = channels, !.eps = eps,
                                  !.channelwise_affine = ca])

Called(r, a) ==
  /\ pc' = "called"
  /\ obj' = r.self
  /\ xin' = a
  /\ x' = r.x
  /\ out' = r.out
  /\ ncalls' = ncalls + 1
  /\ UNCHANGED <<args, obj0, exc, warned, vars32>>

\* The first call of a module.
CallLayerNorm ==
  /\ pc = "constructed"
  /\ obj.cls = "LayerNorm"
  /\ \E a \in Inputs(obj), key \in Keys :
       Called(LayerNorm_call(obj, a, key), a)

CallGroupNorm ==
  /\ pc = "constructed"
  /\ obj.cls = "GroupNorm"
  /\ \E a \in Inputs(obj), key \in Keys :
       Called(GroupNorm_call(obj, a, key), a)

\* A call that follows another call of the same module.
CallLayerNormAgain ==
  /\ pc = "called"
  /\ ncalls < MaxCalls
  /\ obj.cls = "LayerNorm"
  /\ \E a \in Again(xin), key \in Keys :
       Called(LayerNorm_call(obj, a, key), a)

CallGroupNormAgain ==
  /\ pc = "called"
  /\ ncalls < MaxCalls
  /\ obj.cls = "GroupNorm"
  /\ \E a \in Again(xin), key \in Keys :
       Called(GroupNorm_call(obj, a, key), a)

\* A module is constructed and called once.
Next == NewLayerNorm \/ NewGroupNorm \/ CallLayerNorm \/ CallGroupNorm

Spec == Init /\ [][Next]_vars

\* A module is constructed and called any number of times.
NextSeq ==
  \/ NewLayerNorm
  \/ NewGroupNorm
  \/ CallLayerNorm
  \/ CallGroupNorm
  \/ CallLayerNormAgain
  \/ CallGroupNormAgain

SpecSeq == Init /\ [][NextSeq]_vars

\* ---------------------------------------------- the float32 state machine
\* A call on a float32 array whose regions are constant.
Init32 ==
  /\ pc = "start"
  /\ args = NoArgs
  /\ obj = NoObject
  /\ obj0 = NoObject
  /\ exc = "none"
  /\ warned = FALSE
  /\ xin = None
  /\ x = None
  /\ out = None
  /\ ncalls = 0
  /\ pc32 = "ready"
  /\ in32 \in Inputs32
  /\ res32 = <<>>

Called32(r) ==
  /\ pc32' = "done"
  /\ res32' = r
  /\ UNCHANGED <<pc, args, obj, obj0, exc, warned, xin, x, out, ncalls, in32>>

\* LayerNorm.__call__: one mean and one variance over the whole array.
LayerNormF32 ==
  /\ pc32 = "ready"
  /\ in32.cls = "LayerNorm"
  /\ \E r \in NormaliseF32(in32.consts[1], in32.n, in32.eps) : Called32(<<r>>)

\* What normalising each of the groups, on its own, can give.
RECURSIVE PerGroup(_, _, _)
PerGroup(consts, n, eps) ==
  IF consts = <<>> THEN {<<>>}
  ELSE {<<r>> \o q : r \in NormaliseF32(Head(consts), n, eps),
                      q \in PerGroup(Tail(consts), n, eps)}

\* GroupNorm.__call__: a mean and a variance for each group.
GroupNormF32 ==
  /\ pc32 = "ready"
  /\ in32.cls = "GroupNorm"
  /\ \E r \in PerGroup(in32.consts, in32.n, in32.eps) : Called32(r)

Next32 == LayerNormF32 \/ GroupNormF32

SpecF32 == Init32 /\ [][Next32]_vars

\* ---------------------------------------------------------------- claims
IsLayerNorm(o) == o.cls = "LayerNorm"
IsGroupNorm(o) == o.cls = "GroupNorm"
Returned == pc = "called" /\ IsArr(out)

\* Whether a call of o on an array of shape s (no axis of length 0) meets array
\* operations that cannot be carried out: an affine parameter that does not
\* broadcast against x, no leading axis, a leading axis that groups does not
\* divide, or a channel count other than the configured one.
Misfit(o, s) ==
  IF IsLayerNorm(o)
  THEN (o.use_weight \/ o.use_bias) /\ ~Compatible(s, Canonical(o.shape))
  ELSE \/ s = <<>>
       \/ Head(s) % o.groups # 0
       \/ o.channelwise_affine /\ o.channels.n \notin {1, Head(s)}

\* C1 as stated: a call never ends in an error, whatever the shape of x.
C1_NoCallError == pc = "called" => IsArr(out)

\* C1 as amended: __call__ holds no check of its own, and a call (of an array
\* with no axis of length 0) ends in an error exactly when the array
\* operations it is made of cannot be carried out on x's shape; a call with x
\* of the configured shape, the leading axis a multiple of groups, returns.
C1_CallErrorsOnlyOnMisfit ==
  pc = "called" =>
    /\ IsErr(out) <=> Misfit(obj, xin.shape)
    /\ ~IsErr(out) => IsArr(out)
    /\ (Conforms(obj, xin.shape)
        /\ (IsGroupNorm(obj) => Head(xin.shape) % obj.groups = 0))
         => IsArr(out)

C1_Witness ==
  /\ Returned
  /\ IsGroupNorm(obj)
  /\ obj.channelwise_affine
  /\ obj.groups = 2
  /\ Len(xin.shape) = 2

\* C2 as stated: the output has the shape of x, whatever the shape of x.
C2_SameShape == Returned => out.shape = xin.shape

\* C2 as amended: GroupNorm's output has the shape of x; LayerNorm's output
\* has the shape x and the enabled affine parameters broadcast to, which is
\* the shape of x when no affine parameter is enabled or x has the configured
\* shape.
C2_OutputShape ==
  Returned =>
    /\ out.shape =
         IF IsLayerNorm(obj) /\ (obj.use_weight \/ obj.use_bias)
         THEN BroadcastShape(xin.shape, Canonical(obj.shape))
         ELSE xin.shape
    /\ Conforms(obj, xin.shape) => out.shape = xin.shape
    /\ Len(out.data) = Prod(out.shape)

C2_Witness ==
  /\ Returned
  /\ IsGroupNorm(obj)
  /\ obj.groups = 2
  /\ xin.shape = <<2, 2>>
  /\ out.shape = <<2, 2>>

\* The affine flags a LayerNorm constructor call asks for, the deprecated flag
\* included.
AsksWeight(a) ==
  IF a.elementwise_affine # "None" THEN a.elementwise_affine = "True"
  ELSE a.use_weight
AsksBias(a) ==
  IF a.elementwise_affine # "None" THEN a.elementwise_affine = "True"
  ELSE a.use_bias

\* C3: a LayerNorm constructor call that asks for an affine parameter (directly
\* or through elementwise_affine) with shape None ends in an exception and
\* yields no object; no LayerNorm object has an affine parameter enabled and
\* shape None.
C3_MissingShapeRejected ==
  /\ (IsLayerNorm(args) /\ args.shape.kind = "None"
      /\ (AsksWeight(args) \/ AsksBias(args)))
       => (pc = "failed" /\ exc # "none" /\ obj = NoObject)
  /\ (IsLayerNorm(obj) /\ (obj.use_weight \/ obj.use_bias))
       => obj.shape.kind # "None"

C3_Witness ==
  /\ pc = "failed"
  /\ IsLayerNorm(args)
  /\ args.shape.kind = "None"
  /\ args.elementwise_affine = "None"
  /\ ~args.use_weight
  /\ args.use_bias

\* C4: for groups >= 1 a GroupNorm constructor call ends in an exception
\* exactly when channels is known and groups does not divide it, or channels
\* is None and channelwise_affine is true; a constructed GroupNorm has
\* channels % groups = 0 when channels is known, weight and bias of shape
\* (channels,) when channelwise_affine, and neither when not.
C4_GroupNormValidation ==
  IsGroupNorm(args) =>
    /\ args.groups >= 1
    /\ (exc # "none") <=>
         \/ args.channels.kind # "None" /\ args.channels.n % args.groups # 0
         \/ args.channels.kind = "None" /\ args.channelwise_affine
    /\ exc # "none" => (pc = "failed" /\ obj = NoObject)
    /\ exc = "none" =>
         /\ IsGroupNorm(obj)
         /\ obj.channels.kind # "None" => obj.channels.n % obj.groups = 0
         /\ obj.channelwise_affine =>
              /\ obj.channels.kind # "None"
              /\ IsArr(obj.weight) /\ obj.weight.shape = <<obj.channels.n>>
              /\ IsArr(obj.bias) /\ obj.bias.shape = <<obj.channels.n>>
         /\ ~obj.channelwise_affine => (obj.weight = None /\ obj.bias = None)

C4_Witness ==
  /\ pc = "failed"
  /\ IsGroupNorm(args)
  /\ args.channels.kind # "None"
  /\ ~args.channelwise_affine

\* C10: a LayerNorm constructor call given elementwise_affine sets use_weight
\* and use_bias to it, whatever was passed for them, and warns; given None it
\* keeps the flags passed and does not warn; in the object weight is present
\* iff use_weight and bias iff use_bias.
C10_DeprecatedFlag ==
  IsLayerNorm(args) =>
    /\ warned <=> args.elementwise_affine # "None"
    /\ IsLayerNorm(obj) =>
         /\ args.elementwise_affine # "None" =>
              /\ obj.use_weight <=> args.elementwise_affine = "True"
              /\ obj.use_bias <=> args.elementwise_affine = "True"
         /\ args.elementwise_affine = "None" =>
              /\ obj.use_weight <=> args.use_weight
              /\ obj.use_bias <=> args.use_bias
         /\ IsArr(obj.weight) <=> obj.use_weight
         /\ IsArr(obj.bias) <=> obj.use_bias
         /\ ~obj.use_weight => obj.weight = None
         /\ ~obj.use_bias => obj.bias = None

C10_Witness ==
  /\ pc = "constructed"
  /\ IsLayerNorm(obj)
  /\ args.elementwise_affine = "False"
  /\ args.use_weight
  /\ args.use_bias
  /\ warned
  /\ obj.weight = None
  /\ obj.bias = None

\* A LayerNorm of no affine parameter and no shape.
PlainLayerNorm(eps) == LayerNorm_init(NoneArg, eps, FALSE, FALSE, "None").self

Varies(A) == \E i, j \in 1..Len(A.data) : A.data[i] # A.data[j]

\* C5: GroupNorm with groups = 1 and no affine parameters returns, for every x
\* of shape (C, ...), what LayerNorm without affine parameters and the same
\* eps returns for x.
C5_OneGroupIsLayerNorm ==
  (Returned /\ IsGroupNorm(obj) /\ obj.groups = 1 /\ ~obj.channelwise_affine)
    => out = LayerNorm_out(PlainLayerNorm(obj.eps), xin)

C5_Witness ==
  /\ Returned
  /\ IsGroupNorm(obj)
  /\ obj.groups = 1
  /\ ~obj.channelwise_affine
  /\ xin.shape = <<2, 2>>
  /\ Varies(xin)
  /\ Varies(out)

\* The number of elements of one group of x, and the group and the channel of
\* the element at flat index i.
GroupLen(o, A) == (Head(A.shape) \div o.groups) * Prod(Tail(A.shape))
GroupAt(o, A, i) == (i - 1) \div GroupLen(o, A) + 1
ChannelAt(A, i) == (i - 1) \div Prod(Tail(A.shape)) + 1

\* The elements of group g of x, as an array of one axis.
GroupOf(o, A, g) ==
  Arr(<<GroupLen(o, A)>>,
      SubSeq(A.data, (g - 1) * GroupLen(o, A) + 1, g * GroupLen(o, A)))

\* x with every element outside group g set to 0.
Isolated(o, A, g) ==
  Arr(A.shape, [i \in 1..Len(A.data) |->
                  IF GroupAt(o, A, i) = g THEN A.data[i] ELSE VInt(0)])

\* weight[c] and bias[c] as the call applies them to channel c.
WeightAt(o, c) ==
  IF ~o.channelwise_affine THEN VInt(1)
  ELSE o.weight.data[IF o.channels.n = 1 THEN 1 ELSE c]
BiasAt(o, c) ==
  IF ~o.channelwise_affine THEN VInt(0)
  ELSE o.bias.data[IF o.channels.n = 1 THEN 1 ELSE c]

\* C6: the output of GroupNorm at index (c, i...) is weight[c] times the
\* element at the same place of the group of c normalised on its own, plus
\* bias[c]; and it is what the call returns there when every element of the
\* other groups is replaced by 0.
C6_GroupsDoNotInteract ==
  (Returned /\ IsGroupNorm(obj)) =>
    /\ \A i \in 1..Len(out.data) :
         LET g == GroupAt(obj, xin, i)
             own == LayerNorm_out(PlainLayerNorm(obj.eps), GroupOf(obj, xin, g))
             c == ChannelAt(xin, i)
         IN out.data[i] =
              VAdd(VMul(WeightAt(obj, c),
                        own.data[i - (g - 1) * GroupLen(obj, xin)]),
                   BiasAt(obj, c))
    /\ \A g \in 1..obj.groups :
         LET alone == GroupNorm_out(obj, Isolated(obj, xin, g))
         IN \A i \in 1..Len(out.data) :
              GroupAt(obj, xin, i) = g => alone.data[i] = out.data[i]

C6_Witness ==
  /\ Returned
  /\ IsGroupNorm(obj)
  /\ obj.groups = 2
  /\ obj.channelwise_affine
  /\ xin.shape = <<4>>
  /\ xin.data[1] # xin.data[2]
  /\ xin.data[3] = xin.data[4]
  /\ out.data[3] = VInt(0)
  /\ out.data[1] # VInt(0)

\* The LayerNorm or GroupNorm object o with its affine parameters taken away.
WithoutWeight(o) == [o EXCEPT !.use_weight = FALSE, !.weight = None]
WithoutBias(o) == [o EXCEPT !.use_bias = FALSE, !.bias = None]
WithoutAffine(o) ==
  [o EXCEPT !.use_weight = FALSE, !.use_bias = FALSE,
            !.channelwise_affine = FALSE, !.weight = None, !.bias = None]

\* C8: with no affine term enabled the output is (x - mean) * inv; and for x
\* of the configured shape a freshly constructed module returns what it
\* returns with use_weight disabled, with use_bias disabled, and with every
\* affine term disabled (GroupNorm: with channelwise_affine disabled).
C8_AffineSkippedOrNeutral ==
  /\ (Returned /\ IsLayerNorm(obj) /\ ~obj.use_weight /\ ~obj.use_bias)
       => out = Normalise(xin, jnp_mean(xin), jnp_var(xin), obj.eps)
  /\ (Returned /\ IsLayerNorm(obj) /\ Conforms(obj, xin.shape)) =>
       /\ out = LayerNorm_out(WithoutWeight(obj), xin)
       /\ out = LayerNorm_out(WithoutBias(obj), xin)
       /\ out = LayerNorm_out(WithoutAffine(obj), xin)
  /\ (Returned /\ IsGroupNorm(obj) /\ Conforms(obj, xin.shape))
       => out = GroupNorm_out(WithoutAffine(obj), xin)

C8_Witness ==
  /\ Returned
  /\ IsLayerNorm(obj)
  /\ obj.use_weight
  /\ obj.use_bias
  /\ xin.shape = <<2, 2>>
  /\ Canonical(obj.shape) = <<2, 2>>
  /\ Varies(xin)
  /\ Varies(out)

\* What a call of the object o on a returns, key being passed.
CallOf(o, a, key) ==
  IF IsLayerNorm(o) THEN LayerNorm_call(o, a, key)
  ELSE GroupNorm_call(o, a, key)

\* C9: after any number of calls the object is as the constructor returned it,
\* the array passed to the last call is unchanged, and what the call returned
\* is what a call of the newly constructed object on that array with no key
\* returns, whatever was passed as key.
C9_CallsChangeNothing ==
  pc = "called" =>
    /\ obj = obj0
    /\ x = xin
    /\ out = CallOf(obj0, xin, "None").out

C9_Witness ==
  /\ pc = "called"
  /\ ncalls = MaxCalls
  /\ IsArr(out)
  /\ IsLayerNorm(obj)
  /\ obj.use_weight
  /\ Len(xin.data) = MaxElems

\* The original statement of C7: for eps > 0 the output for a region of equal
\* elements is exactly 0 at every position.
C7_ExactlyZero ==
  pc32 = "done" => \A g \in 1..Len(res32) : res32[g].out = "zero"

\* C7: for a region of n equal float32 elements and eps > 0, if neither the
\* mean nor the variance overflows, then the variance is at least 0, the
\* argument of rsqrt is finite and at least eps, inv is finite and positive,
\* and the output is finite; where x - mean is exactly 0 the output is exactly
\* 0, and x - mean is exactly 0 for n <= 2; otherwise x - mean is the rounding
\* error of the mean and the output is that times inv.
C7_ConstantRegion ==
  pc32 = "done" =>
    \A g \in 1..Len(res32) :
      LET r == res32[g]
      IN (FIsFinite(r.mean) /\ FIsFinite(r.variance)) =>
           /\ ~FLess(r.variance, FZero)
           /\ FIsFinite(r.arg)
           /\ ~FLess(r.arg, in32.eps)
           /\ FLess(FZero, r.arg)
           /\ r.inv.k = "fin"
           /\ r.out \in {"zero", "nonzero"}
           /\ FIsZero(r.centred) => r.out = "zero"
           /\ in32.n <= 2 => FIsZero(r.centred)
           /\ FIsFinite(r.centred)

C7_Witness ==
  /\ pc32 = "done"
  /\ in32.cls = "GroupNorm"
  /\ in32.n = 3
  /\ in32.eps = F32(1, 10995116, -40)
  /\ in32.consts[1] = F32(1, 8388608, -23)
  /\ in32.consts[2] = F32(1, 14260634, -23)
  /\ res32[1].out = "zero"
  /\ res32[2].centred = F32(-1, 8388608, -46)
  /\ res32[2].out = "nonzero"

====
